---- MODULE Spec2Model ----
(***************************************************************************)
(* Model of the streaming core of the Desktop Homunculus TypeScript SDK:   *)
(*   host.postStream      (src/src/signals.ts:736-786)                     *)
(*   throwIfError         (src/src/signals.ts:789-797)                     *)
(*   mods.toCommandEvent  (src/src/mods.ts:197-211)                        *)
(*   mods.streamCommand   (src/src/mods.ts:235-247)                        *)
(*   mods.executeCommand  (src/src/mods.ts:278-311)                        *)
(*                                                                         *)
(* Text is a sequence of code units.  The units of the response body are   *)
(* drawn from a small alphabet in which a unit abbreviates a fragment of   *)
(* JSON text:                                                              *)
(*   "o"  {"type":"stdout"      "e"  {"type":"stderr"                      *)
(*   "x"  {"type":"exit"        "u"  {"type":"other"                       *)
(*   "a"  ,"data":"a"           "b"  ,"data":"b"                           *)
(*   "0"  ,"code":0             "1"  ,"code":1                             *)
(*   "T"  ,"timedOut":true      "K"  ,"signal":"SIGKILL"                   *)
(*   "}"  the closing brace     "#"  a unit no JSON text contains          *)
(*   " "  white space           "\n" the line break                        *)
(***************************************************************************)
EXTENDS Integers, Sequences, FiniteSets, TLC

\* ------------------------------------------------------------------ bounds
MaxRecords == 3
MaxChunk == 3

\* ------------------------------------------------------------ text helpers
NL == "\n"
SP == " "

IsWhiteSpace(c) == c \in {SP, NL}

RECURSIVE TrimStart(_)
TrimStart(s) ==
    IF s # <<>> /\ IsWhiteSpace(Head(s)) THEN TrimStart(Tail(s)) ELSE s

RECURSIVE TrimEnd(_)
TrimEnd(s) ==
    IF s # <<>> /\ IsWhiteSpace(s[Len(s)])
    THEN TrimEnd(SubSeq(s, 1, Len(s) - 1)) ELSE s

\* String.prototype.trim
Trim(s) == TrimEnd(TrimStart(s))

\* index of the first line break of s, 0 when there is none
RECURSIVE IndexOfNL(_, _)
IndexOfNL(s, i) ==
    IF i > Len(s) THEN 0
    ELSE IF s[i] = NL THEN i ELSE IndexOfNL(s, i + 1)

\* buffer.split("\n"): one segment more than there are line breaks
RECURSIVE Split(_)
Split(s) ==
    LET i == IndexOfNL(s, 1) IN
    IF i = 0 THEN <<s>>
    ELSE <<SubSeq(s, 1, i - 1)>> \o Split(SubSeq(s, i + 1, Len(s)))

\* Array.prototype.join("\n") on an array of strings
RECURSIVE Join(_)
Join(a) ==
    IF a = <<>> THEN <<>>
    ELSE IF Len(a) = 1 THEN a[1]
    ELSE a[1] \o <<NL>> \o Join(Tail(a))

\* ------------------------------------------------------------------- JSON
Undefined == "undefined"
Null == "null"

TagUnits == {"o", "e", "x", "u"}
DataUnits == {"a", "b"}
CodeUnits == {"0", "1"}
FieldUnits == DataUnits \cup CodeUnits \cup {"T", "K"}

\* white space between JSON tokens is insignificant
StripSpace(t) == SelectSeq(t, LAMBDA c : ~IsWhiteSpace(c))

\* JSON.parse succeeds on t
Parses(t) ==
    LET s == StripSpace(t) IN
    /\ Len(s) >= 2
    /\ s[1] \in TagUnits
    /\ s[Len(s)] = "}"
    /\ \A i \in 2..(Len(s) - 1) : s[i] \in FieldUnits

TypeOf(c) ==
    CASE c = "o" -> "stdout"
      [] c = "e" -> "stderr"
      [] c = "x" -> "exit"
      [] OTHER -> "other"

\* the last member with a given key wins
RECURSIVE LastIn(_, _, _)
LastIn(s, units, i) ==
    IF i = 0 THEN Undefined
    ELSE IF s[i] \in units THEN s[i] ELSE LastIn(s, units, i - 1)

\* the value JSON.parse returns for a text it accepts (a RawCommandEvent)
JSONparse(t) ==
    LET s == StripSpace(t)
        d == LastIn(s, DataUnits, Len(s))
        k == LastIn(s, {"K"}, Len(s))
    IN [type |-> TypeOf(s[1]),
        hasData |-> d # Undefined,
        data |-> IF d = Undefined THEN <<>> ELSE <<d>>,
        code |-> LastIn(s, CodeUnits, Len(s)),
        timedOut |-> IF LastIn(s, {"T"}, Len(s)) = Undefined
                     THEN Undefined ELSE "true",
        signal |-> IF k = Undefined THEN Undefined ELSE "SIGKILL"]

\* --------------------------------------------------------- mods.ts helpers
\* the value of a switch that matches no case: the function returns undefined
UndefinedEvent == [type |-> Undefined]

\* a variant that copies the fields of an exit event without defaulting
toCommandEventNoDefaults(raw) ==
    CASE raw.type = "stdout" ->
           [type |-> "stdout", data |-> IF raw.hasData THEN raw.data ELSE <<>>]
      [] raw.type = "stderr" ->
           [type |-> "stderr", data |-> IF raw.hasData THEN raw.data ELSE <<>>]
      [] raw.type = "exit" ->
           [type |-> "exit",
            exitCode |-> raw.code,
            timedOut |-> raw.timedOut = "true",
            signal |-> raw.signal]
      [] OTHER -> UndefinedEvent

toCommandEvent(raw) ==
    CASE raw.type = "stdout" ->
           [type |-> "stdout", data |-> IF raw.hasData THEN raw.data ELSE <<>>]
      [] raw.type = "stderr" ->
           [type |-> "stderr", data |-> IF raw.hasData THEN raw.data ELSE <<>>]
      [] raw.type = "exit" ->
           [type |-> "exit",
            exitCode |-> IF raw.code = Undefined THEN Null ELSE raw.code,
            timedOut |-> IF raw.timedOut = Undefined THEN FALSE
                         ELSE raw.timedOut = "true",
            signal |-> raw.signal]
      [] OTHER -> UndefinedEvent

\* ------------------------------------------------------------------ inputs
\* the records a host response body is made of (without their line break)
Records ==
    { <<"o", "a", "}">>,          \* stdout "a"
      <<"o", "b", "}", SP>>,      \* stdout "b", trailing white space
      <<"e", "}">>,               \* stderr without data
      <<"x", "0", "}">>,          \* exit, code 0
      <<"x", "T", "K", "}">>,     \* exit, timed out, killed, no code
      <<"u", "}">>,               \* an event of an unknown type
      <<"#">>,                    \* not JSON
      <<SP>>,                     \* a blank line
      <<>> }                      \* an empty line

Statuses == {200, 204, 304, 404, 500}

\* Response.ok
Ok(s) == s >= 200 /\ s <= 299

RECURSIVE SeqsUpTo(_, _)
SeqsUpTo(S, n) ==
    IF n = 0 THEN { <<>> }
    ELSE LET R == SeqsUpTo(S, n - 1) IN
         R \cup { Append(r, x) : r \in { q \in R : Len(q) = n - 1 }, x \in S }

\* the body text: every record followed by a line break, except that the
\* last one is left unterminated when terminated is FALSE
RECURSIVE Flatten(_, _)
Flatten(rs, term) ==
    IF rs = <<>> THEN <<>>
    ELSE IF Len(rs) = 1 THEN (IF term THEN rs[1] \o <<NL>> ELSE rs[1])
    ELSE rs[1] \o <<NL>> \o Flatten(Tail(rs), term)

\* ------------------------------------------------------------------- state
VARIABLES
    status,       \* response.status
    hasBody,      \* response.body is not null
    recs,         \* the records of the response body
    terminated,   \* the last record is followed by a line break
    conn,         \* the underlying connection
    aborted,      \* the caller's AbortSignal has fired
    sent,         \* units of the body handed out by reader.read() so far
    fetchCalls,   \* calls of fetch made by postStream
    pc,           \* where the postStream generator is suspended
    buffer,       \* postStream: buffer
    lines,        \* postStream: the lines of the for-of loop not yet visited
    locked,       \* the reader holds the lock of the body stream
    readerDone,   \* reader.read() has reported done
    yielded,      \* the trimmed lines whose parsed value postStream yielded
    genError,     \* what postStream threw
    events,       \* the CommandEvents streamCommand yielded
    stdoutLines,  \* executeCommand: stdoutLines
    stderrLines,  \* executeCommand: stderrLines
    exitCode,     \* executeCommand: exitCode
    timedOut,     \* executeCommand: timedOut
    exitSignal,   \* executeCommand: exitSignal
    outcome,      \* executeCommand's promise: pending, returned or raised
    result,       \* the CommandResult executeCommand returned
    execError,    \* what executeCommand raised
    abortedAt     \* history: where postStream was suspended when the signal fired

\* a second, concurrently active call of postStream
VARIABLES
    recsB,        \* the records of its response body
    terminatedB,  \* the last record is followed by a line break
    pcB,          \* where the second generator is suspended
    sentB,        \* units of its body handed out by its reader so far
    bufferB,      \* its buffer
    linesB,       \* the lines of its for-of loop not yet visited
    yieldedB,     \* the trimmed lines whose parsed value it yielded
    errorB        \* what it threw

\* a subscription: signals.stream, or a VrmEventSource and its listener
VARIABLES
    subKind,      \* "signals", "vrm" (VrmEventSource) or "metadata"
                  \* (Vrm.streamAllMetadata)
    readyState,   \* EventSource.readyState
    delivered,    \* the messages dispatched to the listener, in arrival order
    dropped,      \* messages the host sent that reached no listener
    started,      \* the messages the handler was invoked for, in invocation order
    inflight,     \* the messages whose handler's promise is still pending
    logged,       \* the messages whose failure console.error reported
    uncaught,     \* exceptions that escaped a listener
    unhandled,    \* rejected promises nobody handles
    closeCalls    \* calls of close() and [Symbol.dispose]() so far

\* a non-streaming host call, alone or inside preferences.load
VARIABLES
    callOp,       \* get, post, put, patch, deleteMethod or preferences.load
    callStatus,   \* response.status
    callBody,     \* the text of the response body
    callPc,       \* idle, fetching, parsing, returned or raised
    callError,    \* what the call raised
    callValue     \* what the call returned

pairB == <<recsB, terminatedB, pcB, sentB, bufferB, linesB, yieldedB, errorB>>
sub == <<subKind, readyState, delivered, dropped, started, inflight, logged,
         uncaught, unhandled, closeCalls>>
call == <<callOp, callStatus, callBody, callPc, callError, callValue>>
others == <<pairB, sub, call>>

inputs == <<status, hasBody, recs, terminated>>
net == <<conn, aborted, sent, fetchCalls>>
gen == <<pc, buffer, lines, locked, readerDone, yielded, genError>>
acc == <<stdoutLines, stderrLines, exitCode, timedOut, exitSignal>>
exec == <<events, stdoutLines, stderrLines, exitCode, timedOut, exitSignal,
          outcome, result, execError>>
vars == <<status, hasBody, recs, terminated, conn, aborted, sent, fetchCalls,
          pc, buffer, lines, locked, readerDone, yielded, genError,
          events, stdoutLines, stderrLines, exitCode, timedOut, exitSignal,
          outcome, result, execError, abortedAt,
          recsB, terminatedB, pcB, sentB, bufferB, linesB, yieldedB, errorB,
          subKind, readyState, delivered, dropped, started, inflight, logged,
          uncaught, unhandled, closeCalls,
          callOp, callStatus, callBody, callPc, callError, callValue>>

\* the text of the response body
Wire == Flatten(recs, terminated)

\* response.url
Url == "commands/execute"

NoError == [name |-> "none"]
NoResult == [exitCode |-> Undefined]

HomunculusApiError(statusCode, endpoint, body) ==
    [name |-> "HomunculusApiError", statusCode |-> statusCode,
     endpoint |-> endpoint, body |-> body]

HomunculusStreamError(rawLine) ==
    [name |-> "HomunculusStreamError", rawLine |-> rawLine]

\* what fetch and reader.read() reject with when the signal has fired
AbortError == [name |-> "AbortError"]
\* what fetch and reader.read() reject with when the transport fails
NetworkError == [name |-> "TypeError", message |-> "network error"]
\* reading .type of undefined
UndefinedTypeError == [name |-> "TypeError", message |-> "event is undefined"]

\* no second stream
PairIdle ==
    /\ recsB = <<>>
    /\ terminatedB = FALSE
    /\ pcB = "start"
    /\ sentB = 0
    /\ bufferB = <<>>
    /\ linesB = <<>>
    /\ yieldedB = <<>>
    /\ errorB = NoError

\* no subscription
SubIdle ==
    /\ subKind = "none"
    /\ readyState = "closed"
    /\ delivered = <<>>
    /\ dropped = 0
    /\ started = <<>>
    /\ inflight = {}
    /\ logged = {}
    /\ uncaught = 0
    /\ unhandled = 0
    /\ closeCalls = 0

\* no host call
CallIdle ==
    /\ callOp = "none"
    /\ callStatus = 200
    /\ callBody = <<>>
    /\ callPc = "idle"
    /\ callError = NoError
    /\ callValue = [kind |-> "undefined"]

Init ==
    /\ PairIdle
    /\ SubIdle
    /\ CallIdle
    /\ status \in Statuses
    /\ hasBody \in BOOLEAN
    /\ recs \in SeqsUpTo(Records, MaxRecords)
    /\ terminated \in BOOLEAN
    /\ terminated => recs # <<>>
    /\ ~hasBody => recs = <<>>
    /\ conn = "idle"
    /\ aborted = FALSE
    /\ sent = 0
    /\ fetchCalls = 0
    /\ pc = "start"
    /\ buffer = <<>>
    /\ lines = <<>>
    /\ locked = FALSE
    /\ readerDone = FALSE
    /\ yielded = <<>>
    /\ genError = NoError
    /\ events = <<>>
    /\ stdoutLines = <<>>
    /\ stderrLines = <<>>
    /\ exitCode = Null
    /\ timedOut = FALSE
    /\ exitSignal = Undefined
    /\ outcome = "pending"
    /\ result = NoResult
    /\ execError = NoError
    /\ abortedAt = "never"

\* ------------------------------------------------ the steps of the pipeline
\* executeCommand's return statement, reached when the stream has ended
ReturnResult ==
    /\ outcome' = "returned"
    /\ result' = [exitCode |-> exitCode, timedOut |-> timedOut,
                  signal |-> exitSignal,
                  stdout |-> Join(stdoutLines), stderr |-> Join(stderrLines)]
    /\ UNCHANGED <<events, acc, execError>>

\* postStream returns; the finally block releases the reader
GenReturn ==
    /\ pc' = "done"
    /\ lines' = <<>>
    /\ locked' = FALSE
    /\ UNCHANGED <<yielded, genError>>
    /\ ReturnResult

\* a variant in which executeCommand catches what the stream throws and
\* returns what it has accumulated
GenThrowSwallowed(err) ==
    /\ pc' = "thrown"
    /\ lines' = <<>>
    /\ locked' = FALSE
    /\ genError' = err
    /\ ReturnResult
    /\ UNCHANGED yielded

\* postStream throws err; the finally block releases the reader; neither
\* streamCommand nor executeCommand catches, so the promise rejects with err
GenThrow(err) ==
    /\ pc' = "thrown"
    /\ lines' = <<>>
    /\ locked' = FALSE
    /\ genError' = err
    /\ outcome' = "raised"
    /\ execError' = err
    /\ UNCHANGED <<yielded, events, acc, result>>

\* a variant that puts each new line in front of the collected ones
AccumulateUnshift(event) ==
    /\ stdoutLines' = IF event.type = "stdout"
                      THEN <<event.data>> \o stdoutLines ELSE stdoutLines
    /\ stderrLines' = IF event.type = "stderr"
                      THEN <<event.data>> \o stderrLines ELSE stderrLines
    /\ exitCode' = IF event.type = "exit" THEN event.exitCode ELSE exitCode
    /\ timedOut' = IF event.type = "exit" THEN event.timedOut ELSE timedOut
    /\ exitSignal' = IF event.type = "exit" THEN event.signal ELSE exitSignal

\* a variant that ignores every event that follows an exit event
AccumulateStopsAtExit(event) ==
    IF \E i \in 1..Len(events) : events[i].type = "exit"
    THEN UNCHANGED acc
    ELSE /\ stdoutLines' = IF event.type = "stdout"
                           THEN Append(stdoutLines, event.data)
                           ELSE stdoutLines
         /\ stderrLines' = IF event.type = "stderr"
                           THEN Append(stderrLines, event.data)
                           ELSE stderrLines
         /\ exitCode' = IF event.type = "exit" THEN event.exitCode
                        ELSE exitCode
         /\ timedOut' = IF event.type = "exit" THEN event.timedOut
                        ELSE timedOut
         /\ exitSignal' = IF event.type = "exit" THEN event.signal
                          ELSE exitSignal

\* the switch of executeCommand's loop body
Accumulate(event) ==
    /\ stdoutLines' = IF event.type = "stdout"
                      THEN Append(stdoutLines, event.data) ELSE stdoutLines
    /\ stderrLines' = IF event.type = "stderr"
                      THEN Append(stderrLines, event.data) ELSE stderrLines
    /\ exitCode' = IF event.type = "exit" THEN event.exitCode ELSE exitCode
    /\ timedOut' = IF event.type = "exit" THEN event.timedOut ELSE timedOut
    /\ exitSignal' = IF event.type = "exit" THEN event.signal ELSE exitSignal

\* postStream yields JSON.parse(trimmed); streamCommand yields its projection;
\* executeCommand's loop body runs.  An undefined event makes the loop body
\* throw, and leaving the for-await loops returns both generators, which runs
\* postStream's finally block.
Yield(trimmed, nextPc, rest) ==
    LET event == toCommandEvent(JSONparse(trimmed)) IN
    /\ yielded' = Append(yielded, trimmed)
    /\ events' = Append(events, event)
    /\ UNCHANGED <<genError, result>>
    /\ IF event = UndefinedEvent
       THEN /\ pc' = "returned"
            /\ lines' = <<>>
            /\ locked' = FALSE
            /\ outcome' = "raised"
            /\ execError' = UndefinedTypeError
            /\ UNCHANGED acc
       ELSE /\ pc' = nextPc
            /\ lines' = rest
            /\ Accumulate(event)
            /\ UNCHANGED <<locked, outcome, execError>>

\* a variant that does not skip the lines that are empty after trimming
FirstNonEmptyNoSkip(ls, i) == IF i > Len(ls) THEN 0 ELSE i

\* index of the first line of ls that is not empty after trimming, else 0
RECURSIVE FirstNonEmpty(_, _)
FirstNonEmpty(ls, i) ==
    IF i > Len(ls) THEN 0
    ELSE IF Len(Trim(ls[i])) = 0 THEN FirstNonEmpty(ls, i + 1) ELSE i

\* a variant that parses every line of the chunk before it yields any
LinesLoopParsesAllFirst(ls) ==
    LET k == FirstNonEmpty(ls, 1)
        bad == SelectSeq(ls, LAMBDA l : Len(Trim(l)) > 0 /\ ~Parses(Trim(l)))
    IN
    IF k = 0
    THEN /\ pc' = "reading"
         /\ lines' = <<>>
         /\ UNCHANGED <<locked, yielded, genError, exec>>
    ELSE IF bad # <<>>
    THEN GenThrow(HomunculusStreamError(Trim(bad[1])))
    ELSE Yield(Trim(ls[k]), "yielded", SubSeq(ls, k + 1, Len(ls)))

\* the for-of loop over the complete lines, run up to its next yield or
\* throw, or to its end, where the generator calls reader.read() again
LinesLoop(ls) ==
    LET k == FirstNonEmpty(ls, 1) IN
    IF k = 0
    THEN /\ pc' = "reading"
         /\ lines' = <<>>
         /\ UNCHANGED <<locked, yielded, genError, exec>>
    ELSE LET trimmed == Trim(ls[k]) IN
         IF Parses(trimmed)
         THEN Yield(trimmed, "yielded", SubSeq(ls, k + 1, Len(ls)))
         ELSE GenThrow(HomunculusStreamError(trimmed))

\* a variant that ends at the end of the stream without flushing the buffer
FlushDropsRemainder == GenReturn

\* the code after the read loop: the remaining buffer is flushed
Flush ==
    LET trimmed == Trim(buffer) IN
    IF Len(trimmed) > 0
    THEN IF Parses(trimmed)
         THEN Yield(trimmed, "flushed", <<>>)
         ELSE GenThrow(HomunculusStreamError(trimmed))
    ELSE GenReturn

\* a variant that tests the status against 400 instead of response.ok
throwIfErrorFrom400(s) == s >= 400

\* throwIfError
throwIfError(s) == ~Ok(s)

\* executeCommand is called: the generators start and postStream calls fetch
Start ==
    /\ pc = "start"
    /\ pc' = "fetching"
    /\ fetchCalls' = fetchCalls + 1
    /\ conn' = IF aborted THEN "aborted" ELSE "requested"
    /\ UNCHANGED <<inputs, others, abortedAt, aborted, sent, buffer, lines, locked, readerDone,
                   yielded, genError, exec>>

\* fetch resolves with the response
FetchResolve ==
    /\ pc = "fetching"
    /\ conn = "requested"
    /\ UNCHANGED <<inputs, others, abortedAt, aborted, sent, fetchCalls, readerDone>>
    /\ IF throwIfError(status)
       THEN /\ conn' = "ended"
            /\ UNCHANGED buffer
            /\ GenThrow(HomunculusApiError(status, Url, Wire))
       ELSE IF ~hasBody
       THEN /\ conn' = "ended"
            /\ UNCHANGED buffer
            /\ GenReturn
       ELSE /\ conn' = "open"
            /\ locked' = TRUE
            /\ buffer' = <<>>
            /\ pc' = "reading"
            /\ UNCHANGED <<lines, yielded, genError, exec>>

\* a variant that issues the request a second time when the first one fails
FetchRejectRetry ==
    /\ pc = "fetching"
    /\ conn = "requested"
    /\ IF fetchCalls < 2
       THEN /\ fetchCalls' = fetchCalls + 1
            /\ UNCHANGED <<conn, gen, exec>>
       ELSE /\ conn' = "failed"
            /\ GenThrow(NetworkError)
            /\ UNCHANGED <<fetchCalls, buffer, readerDone>>
    /\ UNCHANGED <<inputs, others, abortedAt, aborted, sent>>

\* fetch rejects: the transport failed
FetchReject ==
    /\ pc = "fetching"
    /\ conn = "requested"
    /\ conn' = "failed"
    /\ GenThrow(NetworkError)
    /\ UNCHANGED <<inputs, others, abortedAt, aborted, sent, fetchCalls, buffer, readerDone>>

\* fetch rejects: the signal has fired
FetchAbort ==
    /\ pc = "fetching"
    /\ conn = "aborted"
    /\ GenThrow(AbortError)
    /\ UNCHANGED <<inputs, others, abortedAt, net, buffer, readerDone>>

\* a variant in which the signal is not handed to fetch
AbortNotWired ==
    /\ ~aborted
    /\ outcome = "pending"
    /\ aborted' = TRUE
    /\ abortedAt' = pc
    /\ UNCHANGED <<inputs, others, conn, sent, fetchCalls, gen, exec>>

\* the caller's AbortSignal fires; fetch terminates the connection
Abort ==
    /\ ~aborted
    /\ outcome = "pending"
    /\ aborted' = TRUE
    /\ abortedAt' = pc
    /\ conn' = IF conn \in {"requested", "open"} THEN "aborted" ELSE conn
    /\ UNCHANGED <<inputs, others, sent, fetchCalls, gen, exec>>

\* a variant that splits the chunk alone, forgetting the buffered tail
ReadChunkNoAppend(n) ==
    /\ pc = "reading"
    /\ conn = "open"
    /\ sent + n <= Len(Wire)
    /\ sent' = sent + n
    /\ LET value == SubSeq(Wire, sent + 1, sent + n)
           split == Split(value)
       IN /\ buffer' = split[Len(split)]
          /\ LinesLoop(SubSeq(split, 1, Len(split) - 1))
    /\ UNCHANGED <<inputs, others, abortedAt, conn, aborted, fetchCalls, readerDone>>

\* a variant that treats the last segment as a complete line too
ReadChunkNoPop(n) ==
    /\ pc = "reading"
    /\ conn = "open"
    /\ sent + n <= Len(Wire)
    /\ sent' = sent + n
    /\ LET value == SubSeq(Wire, sent + 1, sent + n)
           split == Split(buffer \o value)
       IN /\ buffer' = <<>>
          /\ LinesLoop(split)
    /\ UNCHANGED <<inputs, others, abortedAt, conn, aborted, fetchCalls, readerDone>>

\* a variant that leaves the complete lines in the buffer
ReadChunkKeepsLines(n) ==
    /\ pc = "reading"
    /\ conn = "open"
    /\ sent + n <= Len(Wire)
    /\ sent' = sent + n
    /\ LET value == SubSeq(Wire, sent + 1, sent + n)
           split == Split(buffer \o value)
       IN /\ buffer' = buffer \o value
          /\ LinesLoop(SubSeq(split, 1, Len(split) - 1))
    /\ UNCHANGED <<inputs, others, abortedAt, conn, aborted, fetchCalls, readerDone>>

\* a variant that also reads the next chunk while the consumer still holds
\* the frame yielded last
ReadChunkAhead(n) ==
    /\ pc \in {"reading", "yielded"}
    /\ conn = "open"
    /\ sent + n <= Len(Wire)
    /\ sent' = sent + n
    /\ LET value == SubSeq(Wire, sent + 1, sent + n)
           split == Split(buffer \o value)
       IN /\ buffer' = split[Len(split)]
          /\ IF pc = "reading"
             THEN LinesLoop(SubSeq(split, 1, Len(split) - 1))
             ELSE /\ lines' = lines \o SubSeq(split, 1, Len(split) - 1)
                  /\ UNCHANGED <<pc, locked, yielded, genError, exec>>
    /\ UNCHANGED <<inputs, others, abortedAt, conn, aborted, fetchCalls, readerDone>>

\* reader.read() resolves with the next n units of the body
ReadChunk(n) ==
    /\ pc = "reading"
    /\ conn = "open"
    /\ sent + n <= Len(Wire)
    /\ sent' = sent + n
    /\ LET value == SubSeq(Wire, sent + 1, sent + n)
           split == Split(buffer \o value)
       IN /\ buffer' = split[Len(split)]
          /\ LinesLoop(SubSeq(split, 1, Len(split) - 1))
    /\ UNCHANGED <<inputs, others, abortedAt, conn, aborted, fetchCalls, readerDone>>

\* reader.read() resolves with done: the host has closed the body
ReadDone ==
    /\ pc = "reading"
    /\ conn = "open"
    /\ sent = Len(Wire)
    /\ conn' = "ended"
    /\ readerDone' = TRUE
    /\ Flush
    /\ UNCHANGED <<inputs, others, abortedAt, aborted, sent, fetchCalls, buffer>>

\* reader.read() rejects: the transport failed
ReadFail ==
    /\ pc = "reading"
    /\ conn = "open"
    /\ conn' = "failed"
    /\ GenThrow(NetworkError)
    /\ UNCHANGED <<inputs, others, abortedAt, aborted, sent, fetchCalls, buffer, readerDone>>

\* a variant in which the generator catches the abort and returns
ReadAbortEndsCleanly ==
    /\ pc = "reading"
    /\ conn = "aborted"
    /\ GenReturn
    /\ UNCHANGED <<inputs, others, abortedAt, net, buffer, readerDone>>

\* reader.read() rejects: the signal has fired
ReadAbort ==
    /\ pc = "reading"
    /\ conn = "aborted"
    /\ GenThrow(AbortError)
    /\ UNCHANGED <<inputs, others, abortedAt, net, buffer, readerDone>>

\* the consumer asks for the next item after a yield inside the read loop
Resume ==
    /\ pc = "yielded"
    /\ LinesLoop(lines)
    /\ UNCHANGED <<inputs, others, abortedAt, net, buffer, readerDone>>

\* the consumer asks for the next item after the yield of the flush
ResumeFlushed ==
    /\ pc = "flushed"
    /\ GenReturn
    /\ UNCHANGED <<inputs, others, abortedAt, net, buffer, readerDone>>

Next ==
    \/ Start
    \/ FetchResolve
    \/ FetchReject
    \/ FetchAbort
    \/ Abort
    \/ \E n \in 1..MaxChunk : ReadChunk(n)
    \/ ReadDone
    \/ ReadFail
    \/ ReadAbort
    \/ Resume
    \/ ResumeFlushed

Spec == Init /\ [][Next]_vars

\* ------------------------------------- a consumer that may leave its loop
\* the consumer is a for-await loop over the events of a successful response
\* with a body, and it may leave the loop (break or return) at any event
InitBreak ==
    /\ Init
    /\ status = 200
    /\ hasBody

\* a variant in which leaving the loop skips the finally block
BreakKeepsLock ==
    /\ pc \in {"yielded", "flushed"}
    /\ pc' = "returned"
    /\ lines' = <<>>
    /\ outcome' = "abandoned"
    /\ UNCHANGED <<inputs, others, abortedAt, net, buffer, locked,
                   readerDone, yielded, genError, events, acc, result,
                   execError>>

\* the consumer leaves its loop while the generator is suspended at a
\* yield: the generators are returned, and the finally block of postStream
\* runs reader.releaseLock(), which does not cancel the stream
Break ==
    /\ pc \in {"yielded", "flushed"}
    /\ pc' = "returned"
    /\ lines' = <<>>
    /\ locked' = FALSE
    /\ outcome' = "abandoned"
    /\ UNCHANGED <<inputs, others, abortedAt, net, buffer, readerDone,
                   yielded, genError, events, acc, result, execError>>

NextBreak ==
    \/ Next
    \/ Break

SpecBreak == InitBreak /\ [][NextBreak]_vars

\* ------------------------------------------- a second call of postStream
\* the second call reads a successful response with a body of its own, and
\* its consumer is a for-await loop that takes every frame
MaxPairRecords == 2

PairRecords == { <<"o", "a", "}">>, <<"e", "}", SP>> }

WireB == Flatten(recsB, terminatedB)

\* what the second call leaves alone, apart from the buffer of the first
notB == <<inputs, net, exec, abortedAt, pc, lines, locked, readerDone,
          yielded, genError, sub, call, recsB, terminatedB>>

InitPair ==
    /\ SubIdle
    /\ CallIdle
    /\ status = 200
    /\ hasBody = TRUE
    /\ recs \in SeqsUpTo(PairRecords, MaxPairRecords)
    /\ terminated \in BOOLEAN
    /\ terminated => recs # <<>>
    /\ recsB \in SeqsUpTo(PairRecords, MaxPairRecords)
    /\ terminatedB \in BOOLEAN
    /\ terminatedB => recsB # <<>>
    /\ conn = "idle"
    /\ aborted = FALSE
    /\ sent = 0
    /\ fetchCalls = 0
    /\ pc = "start"
    /\ buffer = <<>>
    /\ lines = <<>>
    /\ locked = FALSE
    /\ readerDone = FALSE
    /\ yielded = <<>>
    /\ genError = NoError
    /\ events = <<>>
    /\ stdoutLines = <<>>
    /\ stderrLines = <<>>
    /\ exitCode = Null
    /\ timedOut = FALSE
    /\ exitSignal = Undefined
    /\ outcome = "pending"
    /\ result = NoResult
    /\ execError = NoError
    /\ abortedAt = "never"
    /\ pcB = "start"
    /\ sentB = 0
    /\ bufferB = <<>>
    /\ linesB = <<>>
    /\ yieldedB = <<>>
    /\ errorB = NoError

\* the for-of loop of the second call, up to its next yield or throw
LinesLoopB(ls) ==
    LET k == FirstNonEmpty(ls, 1) IN
    IF k = 0
    THEN /\ pcB' = "reading"
         /\ linesB' = <<>>
         /\ UNCHANGED <<yieldedB, errorB>>
    ELSE LET trimmed == Trim(ls[k]) IN
         IF Parses(trimmed)
         THEN /\ pcB' = "yielded"
              /\ linesB' = SubSeq(ls, k + 1, Len(ls))
              /\ yieldedB' = Append(yieldedB, trimmed)
              /\ UNCHANGED errorB
         ELSE /\ pcB' = "thrown"
              /\ linesB' = <<>>
              /\ errorB' = HomunculusStreamError(trimmed)
              /\ UNCHANGED yieldedB

\* the second call starts: fetch resolves, the reader is acquired and the
\* buffer of this call is created
StartB ==
    /\ pcB = "start"
    /\ pcB' = "reading"
    /\ bufferB' = <<>>
    /\ UNCHANGED <<notB, buffer, sentB, linesB, yieldedB, errorB>>

\* a variant in which the buffer is one variable shared by all calls
ReadChunkBSharedBuffer(n) ==
    /\ pcB = "reading"
    /\ sentB + n <= Len(WireB)
    /\ sentB' = sentB + n
    /\ LET value == SubSeq(WireB, sentB + 1, sentB + n)
           split == Split(buffer \o value)
       IN /\ buffer' = split[Len(split)]
          /\ LinesLoopB(SubSeq(split, 1, Len(split) - 1))
    /\ UNCHANGED <<notB, bufferB>>

\* the reader of the second call resolves with the next n units of its body
ReadChunkB(n) ==
    /\ pcB = "reading"
    /\ sentB + n <= Len(WireB)
    /\ sentB' = sentB + n
    /\ LET value == SubSeq(WireB, sentB + 1, sentB + n)
           split == Split(bufferB \o value)
       IN /\ bufferB' = split[Len(split)]
          /\ LinesLoopB(SubSeq(split, 1, Len(split) - 1))
    /\ UNCHANGED <<notB, buffer>>

\* the reader of the second call reports done; its buffer is flushed
ReadDoneB ==
    /\ pcB = "reading"
    /\ sentB = Len(WireB)
    /\ LET trimmed == Trim(bufferB) IN
       IF Len(trimmed) > 0
       THEN IF Parses(trimmed)
            THEN /\ pcB' = "flushed"
                 /\ yieldedB' = Append(yieldedB, trimmed)
                 /\ UNCHANGED errorB
            ELSE /\ pcB' = "thrown"
                 /\ errorB' = HomunculusStreamError(trimmed)
                 /\ UNCHANGED yieldedB
       ELSE /\ pcB' = "done"
            /\ UNCHANGED <<yieldedB, errorB>>
    /\ UNCHANGED <<notB, buffer, sentB, bufferB, linesB>>

\* the consumer of the second call asks for the next item
ResumeB ==
    /\ pcB = "yielded"
    /\ LinesLoopB(linesB)
    /\ UNCHANGED <<notB, buffer, sentB, bufferB>>

ResumeFlushedB ==
    /\ pcB = "flushed"
    /\ pcB' = "done"
    /\ UNCHANGED <<notB, buffer, sentB, bufferB, linesB, yieldedB, errorB>>

NextPair ==
    \/ Start
    \/ FetchResolve
    \/ \E n \in 1..MaxChunk : ReadChunk(n)
    \/ ReadDone
    \/ Resume
    \/ ResumeFlushed
    \/ StartB
    \/ \E n \in 1..MaxChunk : ReadChunkB(n)
    \/ ReadDoneB
    \/ ResumeB
    \/ ResumeFlushedB

SpecPair == InitPair /\ [][NextPair]_vars

\* ----------------------------------------------------------- subscriptions
MaxMessages == 3
MaxCloseCalls == 2

\* a message of the host: whether its data is JSON text, and what the
\* caller's handler does when it is invoked for it
Messages ==
    { [data |-> "json", handler |-> h] :
          h \in {"returns", "throws", "resolves", "rejects"} }
    \cup { [data |-> "bad", handler |-> "returns"] }

\* no call of postStream
StreamIdle ==
    /\ status = 200
    /\ hasBody = FALSE
    /\ recs = <<>>
    /\ terminated = FALSE
    /\ conn = "idle"
    /\ aborted = FALSE
    /\ sent = 0
    /\ fetchCalls = 0
    /\ pc = "start"
    /\ buffer = <<>>
    /\ lines = <<>>
    /\ locked = FALSE
    /\ readerDone = FALSE
    /\ yielded = <<>>
    /\ genError = NoError
    /\ events = <<>>
    /\ stdoutLines = <<>>
    /\ stderrLines = <<>>
    /\ exitCode = Null
    /\ timedOut = FALSE
    /\ exitSignal = Undefined
    /\ outcome = "pending"
    /\ result = NoResult
    /\ execError = NoError
    /\ abortedAt = "never"

streamA == <<inputs, net, gen, exec, abortedAt>>

\* new EventSource(url) and addEventListener: the state after signals.stream,
\* or after new VrmEventSource(es) and on(event, callback), has returned
InitSub ==
    /\ StreamIdle
    /\ PairIdle
    /\ CallIdle
    /\ subKind \in {"signals", "vrm", "metadata"}
    /\ readyState = "connecting"
    /\ delivered = <<>>
    /\ dropped = 0
    /\ started = <<>>
    /\ inflight = {}
    /\ logged = {}
    /\ uncaught = 0
    /\ unhandled = 0
    /\ closeCalls = 0

\* the connection of the EventSource is established
Open ==
    /\ readyState = "connecting"
    /\ readyState' = "open"
    /\ UNCHANGED <<streamA, pairB, call, subKind, delivered, dropped, started,
                   inflight, logged, uncaught, unhandled, closeCalls>>

\* the connection is lost; an EventSource that is not closed reconnects
ConnectionLost ==
    /\ readyState = "open"
    /\ readyState' = "connecting"
    /\ UNCHANGED <<streamA, pairB, call, subKind, delivered, dropped, started,
                   inflight, logged, uncaught, unhandled, closeCalls>>

\* the listener of signals.stream runs for message m, which is message id:
\* JSON.parse, the call of f and the await are inside try/catch
SignalsListener(m, id) ==
    /\ started' = IF m.data = "json" THEN Append(started, id) ELSE started
    /\ inflight' = IF m.data = "json" /\ m.handler \in {"resolves", "rejects"}
                   THEN inflight \cup {id} ELSE inflight
    /\ logged' = IF m.data = "bad" \/ m.handler = "throws"
                 THEN logged \cup {id} ELSE logged
    /\ UNCHANGED <<uncaught, unhandled>>

\* the listener of VrmEventSource.on, and likewise of Vrm.streamAllMetadata,
\* runs for message m: JSON.parse and the call of the callback are not
\* guarded, and the returned promise is dropped
VrmListener(m, id) ==
    /\ started' = IF m.data = "json" THEN Append(started, id) ELSE started
    /\ inflight' = IF m.data = "json" /\ m.handler \in {"resolves", "rejects"}
                   THEN inflight \cup {id} ELSE inflight
    /\ uncaught' = IF m.data = "bad" \/ m.handler = "throws"
                   THEN uncaught + 1 ELSE uncaught
    /\ UNCHANGED <<logged, unhandled>>

\* a variant in which the listener of signals.stream has no try/catch
MessageUnguarded(m) ==
    /\ Len(delivered) + dropped < MaxMessages
    /\ readyState \in {"open", "closed"}
    /\ IF readyState = "closed"
       THEN /\ dropped' = dropped + 1
            /\ UNCHANGED <<delivered, started, inflight, logged, uncaught,
                           unhandled>>
       ELSE /\ delivered' = Append(delivered, m)
            /\ UNCHANGED dropped
            /\ VrmListener(m, Len(delivered) + 1)
    /\ UNCHANGED <<streamA, pairB, call, subKind, readyState, closeCalls>>

\* a variant in which the handler of the newest message is invoked ahead of
\* the handlers of the messages before it
MessageNewestFirst(m) ==
    /\ Len(delivered) + dropped < MaxMessages
    /\ readyState \in {"open", "closed"}
    /\ IF readyState = "closed"
       THEN /\ dropped' = dropped + 1
            /\ UNCHANGED <<delivered, started, inflight, logged, uncaught,
                           unhandled>>
       ELSE /\ delivered' = Append(delivered, m)
            /\ UNCHANGED <<dropped, inflight, logged, uncaught, unhandled>>
            /\ started' = IF m.data = "json"
                          THEN <<Len(delivered) + 1>> \o started ELSE started
    /\ UNCHANGED <<streamA, pairB, call, subKind, readyState, closeCalls>>

\* a variant in which a message is dispatched only when no handler of the
\* subscription is still running
MessageSerialized(m) ==
    /\ Len(delivered) + dropped < MaxMessages
    /\ readyState \in {"open", "closed"}
    /\ inflight = {}
    /\ IF readyState = "closed"
       THEN /\ dropped' = dropped + 1
            /\ UNCHANGED <<delivered, started, inflight, logged, uncaught,
                           unhandled>>
       ELSE /\ delivered' = Append(delivered, m)
            /\ UNCHANGED dropped
            /\ IF subKind = "signals"
               THEN SignalsListener(m, Len(delivered) + 1)
               ELSE VrmListener(m, Len(delivered) + 1)
    /\ UNCHANGED <<streamA, pairB, call, subKind, readyState, closeCalls>>

\* the host sends message m: an open EventSource dispatches it to the
\* listener at once; a closed one has released the connection
Message(m) ==
    /\ Len(delivered) + dropped < MaxMessages
    /\ readyState \in {"open", "closed"}
    /\ IF readyState = "closed"
       THEN /\ dropped' = dropped + 1
            /\ UNCHANGED <<delivered, started, inflight, logged, uncaught,
                           unhandled>>
       ELSE /\ delivered' = Append(delivered, m)
            /\ UNCHANGED dropped
            /\ IF subKind = "signals"
               THEN SignalsListener(m, Len(delivered) + 1)
               ELSE VrmListener(m, Len(delivered) + 1)
    /\ UNCHANGED <<streamA, pairB, call, subKind, readyState, closeCalls>>

\* the promise the handler returned for message id settles
Settle(id) ==
    /\ id \in inflight
    /\ inflight' = inflight \ {id}
    /\ IF delivered[id].handler = "rejects"
       THEN IF subKind = "signals"
            THEN /\ logged' = logged \cup {id}
                 /\ UNCHANGED unhandled
            ELSE /\ unhandled' = unhandled + 1
                 /\ UNCHANGED logged
       ELSE UNCHANGED <<logged, unhandled>>
    /\ UNCHANGED <<streamA, pairB, call, subKind, readyState, delivered,
                   dropped, started, uncaught, closeCalls>>

\* a variant of close() that does not close the EventSource
CloseForgetsEventSource ==
    /\ closeCalls < MaxCloseCalls
    /\ closeCalls' = closeCalls + 1
    /\ UNCHANGED <<streamA, pairB, call, subKind, readyState, delivered,
                   dropped, started, inflight, logged, uncaught, unhandled>>

\* a variant of close() that throws when the handle is closed already
CloseThrowsWhenClosed ==
    /\ closeCalls < MaxCloseCalls
    /\ closeCalls' = closeCalls + 1
    /\ readyState' = "closed"
    /\ uncaught' = IF readyState = "closed" THEN uncaught + 1 ELSE uncaught
    /\ UNCHANGED <<streamA, pairB, call, subKind, delivered, dropped, started,
                   inflight, logged, unhandled>>

\* close() of the handle: EventSource.close(), directly or through
\* VrmEventSource.close()
Close ==
    /\ closeCalls < MaxCloseCalls
    /\ closeCalls' = closeCalls + 1
    /\ readyState' = "closed"
    /\ UNCHANGED <<streamA, pairB, call, subKind, delivered, dropped, started,
                   inflight, logged, uncaught, unhandled>>

\* VrmEventSource[Symbol.dispose]()
Dispose ==
    /\ subKind = "vrm"
    /\ closeCalls < MaxCloseCalls
    /\ closeCalls' = closeCalls + 1
    /\ readyState' = "closed"
    /\ UNCHANGED <<streamA, pairB, call, subKind, delivered, dropped, started,
                   inflight, logged, uncaught, unhandled>>

NextSub ==
    \/ Open
    \/ ConnectionLost
    \/ \E m \in Messages : Message(m)
    \/ \E id \in 1..MaxMessages : Settle(id)
    \/ Close
    \/ Dispose

SpecSub == InitSub /\ [][NextSub]_vars

\* -------------------------------------------------- non-streaming calls
HostOps == {"get", "post", "put", "patch", "deleteMethod"}
CallOps == HostOps \cup {"load"}

\* the bodies of a host response: a JSON object, the JSON literal null
\* (the unit "n") after white space, a text that is not JSON, and no body
CallBodies == { <<"o", "a", "}">>, <<SP, "n">>, <<"#">>, <<>> }

\* response.url
CallUrl(op) == IF op = "load" THEN "preferences/key" ELSE "endpoint"

NoValue == [kind |-> "undefined"]

\* what response.json() rejects with on a body that is not JSON
SyntaxError == [name |-> "SyntaxError"]

\* response.json() succeeds on body t
ParsesValue(t) == Parses(t) \/ StripSpace(t) = <<"n">>

\* the value response.json() resolves with
ResponseJson(t) ==
    IF StripSpace(t) = <<"n">>
    THEN [kind |-> "null"]
    ELSE [kind |-> "value", value |-> JSONparse(t)]

\* a variant of the catch of preferences.load that takes every
\* HomunculusApiError for a missing key
LoadCatchesAnyApiError(e) == e.name = "HomunculusApiError"

\* the catch of preferences.load: e instanceof HomunculusApiError and
\* e.statusCode === 404
LoadCatches(e) == e.name = "HomunculusApiError" /\ e.statusCode = 404

InitCall ==
    /\ StreamIdle
    /\ PairIdle
    /\ SubIdle
    /\ callOp \in CallOps
    /\ callStatus \in Statuses
    /\ callBody \in CallBodies
    /\ callPc = "idle"
    /\ callError = NoError
    /\ callValue = NoValue

\* the call begins: fetch(url, ...)
CallStart ==
    /\ callPc = "idle"
    /\ callPc' = "fetching"
    /\ UNCHANGED <<streamA, pairB, sub, callOp, callStatus, callBody,
                   callError, callValue>>

\* fetch rejects: the transport failed; the catch of preferences.load
\* rethrows what is not a HomunculusApiError of status 404
CallFetchReject ==
    /\ callPc = "fetching"
    /\ IF callOp = "load" /\ LoadCatches(NetworkError)
       THEN /\ callPc' = "returned"
            /\ callValue' = [kind |-> "null"]
            /\ UNCHANGED callError
       ELSE /\ callPc' = "raised"
            /\ callError' = NetworkError
            /\ UNCHANGED callValue
    /\ UNCHANGED <<streamA, pairB, sub, callOp, callStatus, callBody>>

\* a variant of the host calls that raises from status 400 on only
CallResponseFrom400 ==
    /\ callPc = "fetching"
    /\ IF callStatus >= 400
       THEN LET e == HomunculusApiError(callStatus, CallUrl(callOp), callBody)
            IN IF callOp = "load" /\ LoadCatches(e)
               THEN /\ callPc' = "returned"
                    /\ callValue' = [kind |-> "null"]
                    /\ UNCHANGED callError
               ELSE /\ callPc' = "raised"
                    /\ callError' = e
                    /\ UNCHANGED callValue
       ELSE IF callOp = "load"
       THEN /\ callPc' = "parsing"
            /\ UNCHANGED <<callError, callValue>>
       ELSE /\ callPc' = "returned"
            /\ callValue' = [kind |-> "response", status |-> callStatus,
                             body |-> callBody]
            /\ UNCHANGED callError
    /\ UNCHANGED <<streamA, pairB, sub, callOp, callStatus, callBody>>

\* fetch resolves with the response: throwIfError, then the host calls
\* return the response and preferences.load goes on to response.json()
CallResponse ==
    /\ callPc = "fetching"
    /\ IF throwIfError(callStatus)
       THEN LET e == HomunculusApiError(callStatus, CallUrl(callOp), callBody)
            IN IF callOp = "load" /\ LoadCatches(e)
               THEN /\ callPc' = "returned"
                    /\ callValue' = [kind |-> "null"]
                    /\ UNCHANGED callError
               ELSE /\ callPc' = "raised"
                    /\ callError' = e
                    /\ UNCHANGED callValue
       ELSE IF callOp = "load"
       THEN /\ callPc' = "parsing"
            /\ UNCHANGED <<callError, callValue>>
       ELSE /\ callPc' = "returned"
            /\ callValue' = [kind |-> "response", status |-> callStatus,
                             body |-> callBody]
            /\ UNCHANGED callError
    /\ UNCHANGED <<streamA, pairB, sub, callOp, callStatus, callBody>>

\* response.json() of preferences.load settles
LoadJson ==
    /\ callPc = "parsing"
    /\ IF ParsesValue(callBody)
       THEN /\ callPc' = "returned"
            /\ callValue' = ResponseJson(callBody)
            /\ UNCHANGED callError
       ELSE IF LoadCatches(SyntaxError)
       THEN /\ callPc' = "returned"
            /\ callValue' = [kind |-> "null"]
            /\ UNCHANGED callError
       ELSE /\ callPc' = "raised"
            /\ callError' = SyntaxError
            /\ UNCHANGED callValue
    /\ UNCHANGED <<streamA, pairB, sub, callOp, callStatus, callBody>>

NextCall ==
    \/ CallStart
    \/ CallFetchReject
    \/ CallResponse
    \/ LoadJson

SpecCall == InitCall /\ [][NextCall]_vars

\* ---------------------------------------------------- what the host sent
IsPrefix(p, q) == Len(p) <= Len(q) /\ SubSeq(q, 1, Len(p)) = p

\* the indexes of the records that are not empty after trimming, in order
NonEmptyIdx ==
    SelectSeq([i \in 1..Len(recs) |-> i], LAMBDA i : Len(Trim(recs[i])) > 0)

\* the frames a decoder of the whole body gives
ExpectedFrames == [k \in 1..Len(NonEmptyIdx) |-> Trim(recs[NonEmptyIdx[k]])]

\* record j is followed by a line break in the body
HasLineBreak(j) == j < Len(recs) \/ terminated

\* the position in the body of the line break that follows record j
RECURSIVE LineBreakPos(_)
LineBreakPos(j) ==
    IF j = 0 THEN 0 ELSE LineBreakPos(j - 1) + Len(recs[j]) + 1

AllRecordsValid ==
    \A i \in 1..Len(recs) : Len(Trim(recs[i])) > 0 /\ Parses(recs[i])

Finished == pc \in {"done", "thrown", "returned"}

\* ------------------------------------------------------------------ claims

\* C1: when the body is N complete, line-break terminated, non-empty JSON
\* records, postStream yields those N records, each once and in order,
\* wherever the chunk boundaries fall: what has been yielded is always a
\* prefix of the records, it is all of them when the generator has run to
\* its end, no record fails to parse because of a chunk boundary, and the
\* flush after the end of the stream yields nothing.
C1_ChunkingIndependent ==
    (terminated /\ AllRecordsValid) =>
        /\ IsPrefix(yielded, ExpectedFrames)
        /\ (pc = "done" => yielded = ExpectedFrames)
        /\ pc # "flushed"
        /\ genError.name # "HomunculusStreamError"

C1_Witness ==
    /\ terminated /\ AllRecordsValid
    /\ Len(recs) = MaxRecords
    /\ pc = "done"
    /\ yielded = ExpectedFrames

\* C2: every frame postStream has yielded is the whole trimmed text of a
\* line of the body, and either the line break that ends that line has been
\* handed out by the reader or the reader has reported done.
C2_NoTruncatedFrame ==
    \A k \in 1..Len(yielded) :
        /\ k <= Len(NonEmptyIdx)
        /\ yielded[k] = ExpectedFrames[k]
        /\ \/ readerDone
           \/ /\ HasLineBreak(NonEmptyIdx[k])
              /\ LineBreakPos(NonEmptyIdx[k]) <= sent

C2_Witness ==
    /\ pc = "yielded"
    /\ ~readerDone
    /\ Len(yielded) >= 1
    /\ Len(buffer) > 0
    /\ Parses(buffer)

\* C3: when the status of the response is not a success status, nothing is
\* read from the body, no reader is acquired and no frame is yielded, and
\* once the response has arrived postStream has thrown HomunculusApiError
\* with the status, the endpoint and the body text.
C3_ApiErrorBeforeFrames ==
    ~Ok(status) =>
        /\ yielded = <<>> /\ events = <<>>
        /\ sent = 0 /\ ~locked /\ buffer = <<>>
        /\ pc \in {"start", "fetching", "thrown"}
        /\ (conn = "ended" =>
              /\ pc = "thrown"
              /\ genError = HomunculusApiError(status, Url, Wire))

C3_Witness ==
    /\ ~Ok(status)
    /\ terminated /\ AllRecordsValid
    /\ pc = "thrown"
    /\ genError.name = "HomunculusApiError"
    /\ genError.statusCode = status
    /\ genError.body = Wire

\* C4: when a frame fails to parse, postStream throws HomunculusStreamError
\* whose rawLine is the offending trimmed line, the generator has finished
\* so that nothing is yielded afterwards, and the underlying connection is
\* closed.
C4_MalformedFrameClosesConnection ==
    genError.name = "HomunculusStreamError" =>
        /\ Len(yielded) < Len(NonEmptyIdx)
        /\ genError.rawLine = ExpectedFrames[Len(yielded) + 1]
        /\ ~Parses(genError.rawLine)
        /\ pc = "thrown"
        /\ conn \in {"ended", "aborted", "failed"}

\* C5: once the AbortSignal has fired while postStream was awaiting the
\* response or the next chunk, no step yields a frame or an event any more,
\* whatever the buffer holds and whatever the host still had to send.
C5_NoYieldAfterAbort ==
    [][(abortedAt \in {"fetching", "reading"}) =>
          (yielded' = yielded /\ events' = events /\ pc' # "yielded"
           /\ pc' # "flushed")]_vars

C5_Witness ==
    /\ abortedAt = "reading"
    /\ Finished
    /\ Len(yielded) >= 1
    /\ Len(Trim(buffer)) > 0
    /\ sent < Len(Wire)

NoExitEvent == \A i \in 1..Len(events) : events[i].type # "exit"

\* C7: executeCommand returns a CommandResult only when an exit event was
\* received, and a result with exitCode null and timedOut false only when
\* an exit event with exactly those values was received.
C7_NoFabricatedResult ==
    outcome = "returned" =>
        /\ ~NoExitEvent
        /\ (result.exitCode = Null /\ ~result.timedOut) =>
              \E i \in 1..Len(events) :
                  /\ events[i].type = "exit"
                  /\ events[i].exitCode = Null
                  /\ ~events[i].timedOut

\* C8: whenever the stream has thrown, executeCommand has raised the same
\* error and has returned no CommandResult, whatever it had accumulated.
C8_StreamErrorSurfaces ==
    /\ (genError # NoError <=> pc = "thrown")
    /\ genError # NoError =>
          /\ outcome = "raised"
          /\ execError = genError
          /\ result = NoResult

C8_Witness ==
    /\ pc = "thrown"
    /\ genError.name = "HomunculusStreamError"
    /\ execError = genError
    /\ Len(stdoutLines) >= 1
    /\ NoExitEvent

\* the events the records of the body stand for
WireEvents == [i \in 1..Len(recs) |-> toCommandEvent(JSONparse(recs[i]))]

\* the body is stdout and stderr events followed by one exit event
CommandWire ==
    /\ Ok(status)
    /\ Len(recs) >= 1
    /\ \A i \in 1..Len(recs) :
          /\ Len(Trim(recs[i])) > 0
          /\ Parses(recs[i])
          /\ i < Len(recs) => WireEvents[i].type \in {"stdout", "stderr"}
          /\ i = Len(recs) => WireEvents[i].type = "exit"

\* the data of the events of one type, in arrival order
DataOf(type) ==
    LET sel == SelectSeq(WireEvents, LAMBDA e : e.type = type)
    IN [i \in 1..Len(sel) |-> sel[i].data]

\* text is the elements of datas separated by line breaks
JoinedAs(text, datas) ==
    IF Len(datas) = 0 THEN text = <<>> ELSE Split(text) = datas

\* C9: for a body of stdout and stderr events followed by one exit event,
\* the CommandResult has the stdout data joined by line breaks in arrival
\* order, the stderr data likewise, and the exit event's exitCode, timedOut
\* and signal; timedOut is true only when the raw exit event said so.
C9_BufferedResult ==
    (CommandWire /\ outcome = "returned") =>
        LET raw == JSONparse(recs[Len(recs)])
            exit == WireEvents[Len(recs)]
        IN /\ JoinedAs(result.stdout, DataOf("stdout"))
           /\ JoinedAs(result.stderr, DataOf("stderr"))
           /\ result.exitCode = exit.exitCode
           /\ result.timedOut = exit.timedOut
           /\ result.signal = exit.signal
           /\ result.timedOut => raw.timedOut = "true"
           /\ raw.signal = Undefined => result.signal = Undefined
           /\ raw.code = Undefined => result.exitCode = Null

C9_Witness ==
    /\ CommandWire
    /\ outcome = "returned"
    /\ Len(recs) = 3
    /\ result.stdout = <<"a", NL, "b">>
    /\ result.stderr = <<>>
    /\ result.exitCode = "0"

\* C10: the events streamCommand yields are stdout and stderr events
\* followed by exactly one exit event: nothing follows an exit event, and
\* when the sequence has ended the last event is an exit event.
C10_ExactlyOneExitLast ==
    /\ \A i \in 1..(Len(events) - 1) : events[i].type \in {"stdout", "stderr"}
    /\ pc = "done" =>
          /\ Len(events) >= 1
          /\ events[Len(events)].type = "exit"

\* C15: postStream calls fetch exactly once per call, whatever the call ends
\* in: never before the generator is started, and never a second time.
C15_OneConnectionAttempt ==
    fetchCalls = IF pc = "start" THEN 0 ELSE 1

C15_Witness ==
    /\ fetchCalls = 1
    /\ pc = "thrown"
    /\ genError = NetworkError
    /\ conn = "failed"
    /\ sent = 0

\* C19: no yielded frame is empty: every yielded frame is the trimmed text
\* of a line of the body that is not empty after trimming, begins and ends
\* with a unit that is not white space, and gave one event; a line that is
\* empty or only white space is passed over, in the read loop and in the
\* flush, so that it is never what HomunculusStreamError reports.
C19_NoEmptyFrame ==
    /\ \A k \in 1..Len(yielded) :
          /\ Len(yielded[k]) > 0
          /\ ~IsWhiteSpace(yielded[k][1])
          /\ ~IsWhiteSpace(yielded[k][Len(yielded[k])])
          /\ k <= Len(NonEmptyIdx)
          /\ yielded[k] = Trim(recs[NonEmptyIdx[k]])
    /\ Len(events) = Len(yielded)
    /\ genError.name = "HomunculusStreamError" => Len(genError.rawLine) > 0
    /\ (pc = "done" /\ hasBody) => Len(yielded) = Len(NonEmptyIdx)

C19_Witness ==
    /\ pc = "done"
    /\ ~terminated
    /\ Len(recs) = 3
    /\ recs[1] = <<>>
    /\ recs[3] = <<SP>>
    /\ Len(yielded) = 1
    /\ yielded[1] = Trim(recs[2])
    /\ recs[2] # yielded[1]

\* C20 as stated: when the reader has reported done while the buffer held a
\* remainder that is not empty after trimming, postStream has yielded that
\* remainder as the last frame, after all earlier frames, and ends.
C20_FlushYieldsRemainder ==
    (readerDone /\ Len(Trim(buffer)) > 0) =>
        /\ pc \in {"flushed", "done", "returned"}
        /\ genError = NoError
        /\ yielded = ExpectedFrames
        /\ yielded[Len(yielded)] = Trim(buffer)

\* C20 as amended: the remainder is yielded as the last frame, after all
\* earlier frames, when it parses as JSON; when it does not, postStream has
\* thrown HomunculusStreamError carrying it, after all earlier frames.
C20_FlushYieldsOrRaises ==
    (readerDone /\ Len(Trim(buffer)) > 0) =>
        IF Parses(Trim(buffer))
        THEN /\ pc \in {"flushed", "done", "returned"}
             /\ genError = NoError
             /\ yielded = ExpectedFrames
             /\ yielded[Len(yielded)] = Trim(buffer)
        ELSE /\ pc = "thrown"
             /\ genError = HomunculusStreamError(Trim(buffer))
             /\ Len(yielded) + 1 = Len(ExpectedFrames)
             /\ IsPrefix(yielded, ExpectedFrames)

C20_Witness ==
    /\ readerDone
    /\ ~terminated
    /\ pc = "done"
    /\ Len(yielded) = 3
    /\ yielded[3] = Trim(buffer)
    /\ buffer # Trim(buffer)

\* the frames a decoder of a whole body of records rs gives
FramesOf(rs) ==
    LET idx == SelectSeq([i \in 1..Len(rs) |-> i],
                         LAMBDA i : Len(Trim(rs[i])) > 0)
    IN [k \in 1..Len(idx) |-> Trim(rs[idx[k]])]

\* the text after the last line break of the first n units of text w
RECURSIVE TailOf(_, _)
TailOf(w, n) ==
    IF n = 0 \/ w[n] = NL THEN <<>> ELSE Append(TailOf(w, n - 1), w[n])

\* C16: two concurrently active calls of postStream do not interact: in
\* every interleaving of their chunks each call yields the frames of its own
\* body, in order, all of them when it has run to its end, and fails on
\* none; while a call awaits a chunk its buffer is the unterminated tail of
\* its own body.
C16_StreamsIndependent ==
    /\ IsPrefix(yielded, FramesOf(recs))
    /\ pc = "done" => yielded = FramesOf(recs)
    /\ pc = "reading" => buffer = TailOf(Wire, sent)
    /\ genError = NoError
    /\ IsPrefix(yieldedB, FramesOf(recsB))
    /\ pcB = "done" => yieldedB = FramesOf(recsB)
    /\ pcB = "reading" => bufferB = TailOf(WireB, sentB)
    /\ errorB = NoError

C16_Witness ==
    /\ pc = "reading" /\ pcB = "reading"
    /\ Len(yielded) >= 1 /\ Len(yieldedB) >= 1
    /\ Len(buffer) > 0 /\ Len(bufferB) > 0
    /\ buffer # bufferB
    /\ yielded # yieldedB

\* the delivered messages whose data is JSON text, in arrival order
JsonIds ==
    SelectSeq([i \in 1..Len(delivered) |-> i],
              LAMBDA i : delivered[i].data = "json")

\* the delivered messages whose processing has failed so far
FailedIds ==
    { i \in 1..Len(delivered) :
          \/ delivered[i].data = "bad"
          \/ delivered[i].handler = "throws"
          \/ delivered[i].handler = "rejects" /\ i \notin inflight }

\* C11: in signals.stream a handler that throws or whose promise rejects
\* does not close the subscription and does not keep the handler from being
\* invoked for the later messages: the handler has been invoked for every
\* delivered message whose data parses, every failure has been logged, and
\* none has escaped the listener as an exception or an unhandled rejection.
C11_HandlerFailureContained ==
    subKind = "signals" =>
        /\ closeCalls = 0 => readyState # "closed"
        /\ started = JsonIds
        /\ logged = FailedIds
        /\ uncaught = 0
        /\ unhandled = 0

C11_Witness ==
    /\ subKind = "signals"
    /\ readyState = "open"
    /\ Len(delivered) = 3
    /\ delivered[1].handler = "rejects"
    /\ delivered[2].handler = "throws"
    /\ started = <<1, 2, 3>>
    /\ logged = {1, 2}

\* C12: the handler invocations of one subscription begin in arrival order,
\* whatever the order in which the handlers' promises settle.
C12_StartsInArrivalOrder ==
    \A i, j \in 1..Len(started) : i < j => started[i] < started[j]

C12_Witness ==
    /\ started = <<1, 2, 3>>
    /\ delivered[1].handler = "resolves"
    /\ delivered[2].handler = "resolves"
    /\ inflight = {1, 3}

\* C13: once close() or [Symbol.dispose]() has been called, no step invokes
\* the handler or dispatches a message, whatever the host sends.
C13_NoInvocationAfterClose ==
    [][closeCalls >= 1 => (started' = started /\ delivered' = delivered)]_vars

C13_Witness ==
    /\ closeCalls >= 1
    /\ Len(started) >= 1
    /\ dropped >= 1

\* C14: a second close(), or [Symbol.dispose]() after close(), raises
\* nothing and changes nothing: the handle is closed after the first call
\* and every later call leaves the subscription as it was.
C14_CloseIdempotent ==
    /\ [](closeCalls >= 1 => readyState = "closed")
    /\ [][(closeCalls >= 1 /\ closeCalls' # closeCalls) =>
             UNCHANGED <<readyState, delivered, dropped, started, inflight,
                         logged, uncaught, unhandled>>]_vars

C14_Witness ==
    /\ subKind = "vrm"
    /\ closeCalls = 2
    /\ readyState = "closed"
    /\ uncaught = 0
    /\ Len(delivered) >= 1

\* the response a host call returns
ResponseOf == [kind |-> "response", status |-> callStatus, body |-> callBody]

\* the call has ended and fetch had resolved with a response
Answered ==
    /\ callPc \in {"returned", "raised"}
    /\ callError # NetworkError

C18_NullExactlyOn404 ==
    (callOp = "load" /\ callPc \in {"returned", "raised"}) =>
        /\ (callPc = "returned" /\ callValue.kind = "null")
               <=> (callError # NetworkError /\ callStatus = 404)
        /\ callPc = "returned" /\ callStatus # 404 =>
               /\ Ok(callStatus)
               /\ callValue = ResponseJson(callBody)

\* C18, amended: preferences.load returns null when the request failed with
\* a HomunculusApiError of status 404, and otherwise only when the body of a
\* successful response is the JSON value null; a HomunculusApiError of
\* another status, a transport failure and a parse failure propagate, and a
\* successful response returns the parsed value.
C18_NullOn404OrNullValue ==
    callOp = "load" =>
        /\ callPc = "returned" =>
              /\ callError = NoError
              /\ IF callStatus = 404
                 THEN callValue = [kind |-> "null"]
                 ELSE /\ Ok(callStatus)
                      /\ ParsesValue(callBody)
                      /\ callValue = ResponseJson(callBody)
                      /\ callValue.kind = "null"
                            <=> StripSpace(callBody) = <<"n">>
        /\ callPc = "raised" =>
              /\ callValue = NoValue
              /\ \/ callError = NetworkError
                 \/ /\ ~Ok(callStatus)
                    /\ callStatus # 404
                    /\ callError = HomunculusApiError(callStatus,
                                                      CallUrl(callOp), callBody)
                 \/ /\ Ok(callStatus)
                    /\ ~ParsesValue(callBody)
                    /\ callError = SyntaxError
        /\ (Answered /\ callStatus = 404) => callPc = "returned"

C18_Witness ==
    /\ callOp = "load"
    /\ callPc = "returned"
    /\ callStatus = 200
    /\ callBody = <<SP, "n">>
    /\ callValue = [kind |-> "null"]

\* ev is the CommandEvent the specification assigns to the raw event raw
IsProjectionOf(ev, raw) ==
    CASE raw.type \in {"stdout", "stderr"} ->
           /\ ev.type = raw.type
           /\ DOMAIN ev = {"type", "data"}
           /\ ev.data = IF raw.hasData THEN raw.data ELSE <<>>
      [] raw.type = "exit" ->
           /\ ev.type = "exit"
           /\ DOMAIN ev = {"type", "exitCode", "timedOut", "signal"}
           /\ ev.exitCode = IF raw.code \in CodeUnits THEN raw.code ELSE Null
           /\ ev.timedOut = (raw.timedOut = "true")
           /\ ev.signal = raw.signal
      [] OTHER -> ev = UndefinedEvent

\* C21: streamCommand yields one item per raw event postStream yielded, in
\* the same order, adding and dropping none; the item of a stdout or stderr
\* event keeps its data (the empty string when absent), the item of an exit
\* event carries code as exitCode (null when absent), timedOut (false when
\* absent) and signal.
C21_PureProjection ==
    /\ Len(events) = Len(yielded)
    /\ \A k \in 1..Len(events) :
          IsProjectionOf(events[k], JSONparse(yielded[k]))

C21_Witness ==
    /\ Len(events) = 3
    /\ yielded[1] = <<"e", "}">>
    /\ events[1] = [type |-> "stderr", data |-> <<>>]
    /\ yielded[2] = <<"x", "0", "}">>
    /\ events[2].timedOut = FALSE
    /\ yielded[3] = <<"x", "T", "K", "}">>
    /\ events[3].exitCode = Null
    /\ events[3].signal = "SIGKILL"

\* the complete lines of the text the reader has handed out so far
ReceivedLines ==
    LET split == Split(SubSeq(Wire, 1, sent))
    IN SubSeq(split, 1, Len(split) - 1)

\* C22: postStream takes a chunk from the reader only while the consumer
\* is waiting for an item and every frame split out of the chunks before it
\* has been handed to the consumer: no chunk is read while a frame is
\* yielded and not yet taken up, or while lines of an earlier chunk are
\* still to be visited.
C22_Backpressure ==
    [][sent' # sent =>
         /\ pc = "reading"
         /\ lines = <<>>
         /\ yielded = FramesOf(ReceivedLines)
         /\ Len(events) = Len(yielded)]_vars

C22_Witness ==
    /\ pc = "yielded"
    /\ Len(lines) >= 1
    /\ Len(yielded) = 1
    /\ conn = "open"
    /\ sent < Len(Wire)

\* C23 as stated: when the consumer has left the sequence early without
\* firing the AbortSignal, the generator's cleanup has run, the response
\* stream is cancelled or closed, and no further chunk is read from it.
C23_AbandonTearsDown ==
    /\ []((pc = "returned" /\ ~aborted) =>
             /\ ~locked
             /\ conn \in {"ended", "failed", "cancelled"})
    /\ [][pc = "returned" => sent' = sent]_vars

\* C24 as stated, for subscriptions: a message whose data is not valid JSON
\* is not merely logged and dropped; only failures of the caller's handler
\* are caught and logged by signals.stream.
C24_OnlyHandlerFailuresLogged ==
    subKind = "signals" =>
        \A i \in logged : delivered[i].data = "json"

\* C25 as stated: the dispatch sites of VrmEventSource.on and
\* Vrm.streamAllMetadata catch a handler that throws or whose promise
\* rejects: no failure escapes as an uncaught exception or an unhandled
\* rejection.
C25_EveryDispatchSiteCatches ==
    subKind \in {"vrm", "metadata"} =>
        /\ uncaught = 0
        /\ unhandled = 0

\* C26: in signals.stream the dispatch of a message does not wait for the
\* handlers of earlier messages: while the subscription is open the next
\* message can be dispatched whatever handlers are in flight, and each
\* handler in flight can complete next, so completions come in any order.
C26_DispatchDoesNotWait ==
    subKind = "signals" =>
        /\ (readyState = "open" /\ Len(delivered) + dropped < MaxMessages)
              => \A m \in Messages : ENABLED Message(m)
        /\ \A id \in inflight : ENABLED Settle(id)

C26_Witness ==
    /\ subKind = "signals"
    /\ readyState = "open"
    /\ started = <<1, 2, 3>>
    /\ delivered[3].handler = "rejects"
    /\ inflight = {1, 3}
    /\ logged = {}

\* C27: when HomunculusStreamError is raised, every valid non-empty line
\* that precedes the malformed one in the body has been yielded, in order,
\* and handed on as an event: the frames yielded are exactly the non-empty
\* lines before the first one that does not parse, and the error carries
\* that one.
C27_ValidLinesBeforeError ==
    genError.name = "HomunculusStreamError" =>
        /\ Len(yielded) < Len(NonEmptyIdx)
        /\ yielded = SubSeq(ExpectedFrames, 1, Len(yielded))
        /\ \A k \in 1..Len(yielded) : Parses(ExpectedFrames[k])
        /\ ~Parses(ExpectedFrames[Len(yielded) + 1])
        /\ genError.rawLine = ExpectedFrames[Len(yielded) + 1]
        /\ Len(events) = Len(yielded)
        /\ Len(stdoutLines) + Len(stderrLines)
              = Cardinality({k \in 1..Len(events) :
                                events[k].type \in {"stdout", "stderr"}})

\* a valid line has been yielded while a malformed line of the same chunk
\* is the next one the loop will visit
C27_Witness ==
    /\ pc = "yielded"
    /\ Len(yielded) >= 1
    /\ Len(lines) >= 1
    /\ Len(Trim(lines[1])) > 0
    /\ ~Parses(Trim(lines[1]))

\* the data of the events of one type executeCommand received, in order
ReceivedData(type) ==
    LET sel == SelectSeq(events, LAMBDA e : e.type = type)
    IN [i \in 1..Len(sel) |-> sel[i].data]

\* the exit events executeCommand received, in order
ReceivedExits == SelectSeq(events, LAMBDA e : e.type = "exit")

\* C28: executeCommand does not stop at an exit event: the result it
\* returns has the data of every stdout and stderr event received, those
\* after an exit event included, and the exit fields of the last exit event
\* received (the initial values when there was none).
C28_LastExitWins ==
    outcome = "returned" =>
        /\ JoinedAs(result.stdout, ReceivedData("stdout"))
        /\ JoinedAs(result.stderr, ReceivedData("stderr"))
        /\ IF ReceivedExits = <<>>
           THEN /\ result.exitCode = Null
                /\ result.timedOut = FALSE
                /\ result.signal = Undefined
           ELSE LET last == ReceivedExits[Len(ReceivedExits)]
                IN /\ result.exitCode = last.exitCode
                   /\ result.timedOut = last.timedOut
                   /\ result.signal = last.signal

C28_Witness ==
    /\ outcome = "returned"
    /\ Len(events) = 3
    /\ events[1].type = "exit"
    /\ events[1].exitCode = "0"
    /\ events[2].type = "stdout"
    /\ events[3].type = "exit"
    /\ result.stdout = <<"a">>
    /\ result.exitCode = Null
    /\ result.timedOut = TRUE
    /\ result.signal = "SIGKILL"

\* C29: every time the generator is suspended awaiting the next chunk, the
\* buffer holds no line break and is the text received after the last line
\* break received so far.
C29_BufferIsUnterminatedTail ==
    pc = "reading" =>
        /\ \A i \in 1..Len(buffer) : buffer[i] # NL
        /\ buffer = TailOf(Wire, sent)

C29_Witness ==
    /\ pc = "reading"
    /\ conn = "open"
    /\ Len(yielded) >= 1
    /\ Len(buffer) >= 2
    /\ sent < Len(Wire)

\* C30: once the reader has been acquired, the generator never ends with
\* the lock held: the lock is held only while the generator is suspended
\* inside the try block, and it is released when the generator has ended
\* normally, thrown HomunculusStreamError, thrown what a read rejected
\* with, or been returned early by the consumer.
C30_LockReleasedOnExit ==
    /\ pc \in {"done", "thrown", "returned"} => ~locked
    /\ locked => pc \in {"reading", "yielded", "flushed"}

C30_Witness ==
    /\ pc = "returned"
    /\ outcome = "abandoned"
    /\ ~locked
    /\ conn = "open"
    /\ sent >= 1
    /\ Len(yielded) >= 1

====
